---- MODULE Spec2Model ----
(***************************************************************************)
(* Fair-partition arithmetic of libsxbp's two balancing scripts:           *)
(*   array_rebalancing.py     - get_size and the array rebalancing pass    *)
(*   processors_work_share.py - problem_shares and problem_ranges          *)
(* Python's `/` on two ints yields a binary64 float and `float * int` is a *)
(* binary64 product, so m / k * i is modelled with correctly rounded       *)
(* 53-bit significands (kept as bit sequences, most significant first).    *)
(***************************************************************************)
EXTENDS Integers, Sequences, FiniteSets, Bags, TLC

\* ------------------------------------------------------------------ bounds
MaxTotal == 15       \* largest total m / problem_size drawn as an input
MaxBuckets == 11     \* largest bucket / processor count drawn as an input
MaxK == 3            \* largest number of arrays in a drawn collection
MaxLen == 3          \* largest initial length of a drawn array

\* --------------------------------------------------------- binary64 floats
MANT == 53           \* significand width of a Python float

ZeroDivisionError == "ZeroDivisionError"

\* width of the machine words the significand is processed in
WORD == 16

RECURSIVE Pow2(_)
Pow2(n) == IF n = 0 THEN 1 ELSE 2 * Pow2(n - 1)

RECURSIVE IntToBits(_)
IntToBits(n) == IF n = 0 THEN <<>> ELSE IntToBits(n \div 2) \o <<n % 2>>

\* the low w bits of n, as exactly w bits
WordBits(n, w) == [x \in 1..w |-> (n \div Pow2(w - x)) % 2]

RECURSIVE BitsToInt(_)
BitsToInt(b) ==
    IF Len(b) <= WORD
    THEN IF b = <<>> THEN 0
         ELSE 2 * BitsToInt(SubSeq(b, 1, Len(b) - 1)) + b[Len(b)]
    ELSE BitsToInt(SubSeq(b, 1, Len(b) - WORD)) * Pow2(WORD)
         + BitsToInt(SubSeq(b, Len(b) - WORD + 1, Len(b)))

\* b + 1: the trailing ones become zeros and the zero before them a one
Inc(b) ==
    LET zeros == {x \in 1..Len(b) : b[x] = 0}
    IN  IF zeros = {} THEN <<1>> \o [x \in 1..Len(b) |-> 0]
        ELSE LET z == CHOOSE x \in zeros : \A y \in zeros : y <= x
             IN  [x \in 1..Len(b) |->
                     IF x < z THEN b[x] ELSE IF x = z THEN 1 ELSE 0]

\* A float is [sign, bits, exp]: value (-1)^sign * bits * 2^exp, where bits
\* is MANT bits with a leading 1, or <<>> for zero.
FZero(s) == [sign |-> s, bits |-> <<>>, exp |-> 0]

\* round to nearest, ties to even: `half` is the first dropped bit and
\* `sticky` tells whether any later dropped bit is set
RoundEven(s, kept, e, half, sticky) ==
    LET up == half = 1 /\ (sticky \/ kept[Len(kept)] = 1)
        r == IF up THEN Inc(kept) ELSE kept
    IN  IF Len(r) > MANT
        THEN [sign |-> s, bits |-> SubSeq(r, 1, MANT), exp |-> e + 1]
        ELSE [sign |-> s, bits |-> r, exp |-> e]

\* scale num/den into [1, 2), counting the binary exponent
RECURSIVE Norm(_, _, _)
Norm(num, den, e) ==
    IF num >= 2 * den THEN Norm(num, 2 * den, e + 1)
    ELSE IF num < den THEN Norm(2 * num, den, e - 1)
    ELSE <<num, den, e>>

\* n further quotient bits of r/den (r < den), appended to acc, and the
\* remainder left
RECURSIVE LongDiv(_, _, _, _)
LongDiv(r, den, n, acc) ==
    IF n = 0 THEN [q |-> acc, r |-> r]
    ELSE IF 2 * r >= den
         THEN LongDiv(2 * r - den, den, n - 1, Append(acc, 1))
         ELSE LongDiv(2 * r, den, n - 1, Append(acc, 0))

\* the same, a word at a time
RECURSIVE LongDivWords(_, _, _, _)
LongDivWords(r, den, n, acc) ==
    IF n <= WORD THEN LongDiv(r, den, n, acc)
    ELSE LET d == LongDiv(r, den, WORD, acc)
         IN  LongDivWords(d.r, den, n - WORD, d.q)

Abs(x) == IF x < 0 THEN 0 - x ELSE x

\* int / int (k # 0): the correctly rounded quotient
true_div(m, k) ==
    LET s == IF (m < 0) # (k < 0) THEN 1 ELSE 0
    IN  IF m = 0 THEN FZero(IF k < 0 THEN 1 ELSE 0)
        ELSE LET n == Norm(Abs(m), Abs(k), 0)
                 d == LongDivWords(n[1] - n[2], n[2], MANT - 1, <<1>>)
                 half == IF 2 * d.r >= n[2] THEN 1 ELSE 0
                 sticky == 2 * d.r - half * n[2] # 0
             IN  RoundEven(s, d.q, n[3] - (MANT - 1), half, sticky)

\* exact product of a bit string with a small non-negative integer, a word
\* at a time from the least significant end
RECURSIVE MulBits(_, _, _)
MulBits(b, n, carry) ==
    IF b = <<>> THEN IntToBits(carry)
    ELSE LET w == IF Len(b) < WORD THEN Len(b) ELSE WORD
             t == BitsToInt(SubSeq(b, Len(b) - w + 1, Len(b))) * n + carry
         IN  MulBits(SubSeq(b, 1, Len(b) - w), n, t \div Pow2(w))
                 \o WordBits(t % Pow2(w), w)

\* float * int for an int n >= 0: the correctly rounded product
float_mul(f, n) ==
    IF f.bits = <<>> \/ n = 0 THEN FZero(f.sign)
    ELSE LET p == MulBits(f.bits, n, 0)
             extra == Len(p) - MANT
             half == IF extra >= 1 THEN p[MANT + 1] ELSE 0
             sticky == \E x \in (MANT + 2)..Len(p) : p[x] = 1
         IN  RoundEven(f.sign, SubSeq(p, 1, MANT), f.exp + extra, half, sticky)

\* math.floor of a float
floor(f) ==
    IF f.bits = <<>> THEN 0
    ELSE LET whole == IF f.exp >= 0
                      THEN f.bits \o [x \in 1..f.exp |-> 0]
                      ELSE IF MANT + f.exp <= 0 THEN <<>>
                      ELSE SubSeq(f.bits, 1, MANT + f.exp)
             frac == f.exp < 0 /\
                     \E x \in 1..MANT : x > MANT + f.exp /\ f.bits[x] = 1
             t == BitsToInt(whole)
         IN  IF f.sign = 0 THEN t
             ELSE IF frac THEN 0 - (t + 1) ELSE 0 - t

\* floor(m / k * x)
boundary(m, k, x) == floor(float_mul(true_div(m, k), x))

\* the outcome of a call: a returned value or a raised exception
Return(v) == <<"return", v>>
Raise(e) == <<"raise", e>>
returns(o) == o[1] = "return"
value(o) == o[2]

\* get_size with the lower boundary taken as floor(m / k) * i
get_size_floor_first(i, k, m) ==
    IF k = 0 THEN Raise(ZeroDivisionError)
    ELSE Return(boundary(m, k, i + 1) - boundary(m, k, 1) * i)

\* get_size rejecting every non-positive bucket count
get_size_guarded(i, k, m) ==
    IF k <= 0 THEN Raise(ZeroDivisionError)
    ELSE Return(boundary(m, k, i + 1) - boundary(m, k, i))

\* m / k raises for k = 0
get_size(i, k, m) ==
    IF k = 0 THEN Raise(ZeroDivisionError)
    ELSE Return(boundary(m, k, i + 1) - boundary(m, k, i))

\* ------------------------------------------------------------- the state
VARIABLES
    \* array_rebalancing.py
    input,            \* the collection the script starts from
    arrays, M, K, V, i, j,
    pc,               \* "sum", "outer", "inner", "done" ("off": not run)
    \* a caller of get_size: [get_size(x, k, m) for x in 0 .. |k|-1]
    size_m, size_k, size_out,
    size_pc,          \* "call", "returned", "raised" ("off": not run)
    \* processors_work_share.py
    problem_size, processors, problem_shares, problem_ranges,
    split_pc          \* "shares", "ranges", "done" ("off": not run)

rebalance_vars == <<input, arrays, M, K, V, i, j, pc>>
size_vars == <<size_m, size_k, size_out, size_pc>>
split_vars ==
    <<problem_size, processors, problem_shares, problem_ranges, split_pc>>
vars == <<rebalance_vars, size_vars, split_vars>>

None == "None"

\* ------------------------------------------------------------- the inputs
\* the collection written in array_rebalancing.py
Example ==
    << <<3, 5>>, <<3, 6, 9, 7>>, <<6, 9, 2, 7, 5, 2, 1, 2>>, <<1, 4, 3>>,
       <<4, 2, 5, 1>> >>

RECURSIVE SumSeq(_)
SumSeq(s) == IF s = <<>> THEN 0 ELSE s[1] + SumSeq(Tail(s))

\* arrays of the given lengths holding the distinct elements 1, 2, 3, ...
Labelled(lens) ==
    [a \in 1..Len(lens) |->
        [p \in 1..lens[a] |-> SumSeq(SubSeq(lens, 1, a - 1)) + p]]

\* eleven arrays holding fifteen elements
Wide == Labelled(<<5, 0, 0, 3, 0, 0, 2, 0, 0, 5, 0>>)

Inputs ==
    {Labelled(lens) : lens \in UNION {[1..n -> 0..MaxLen] : n \in 0..MaxK}}
        \cup {Example, Wide}

rebalance_off ==
    /\ input = <<>> /\ arrays = <<>> /\ M = 0 /\ K = 0 /\ V = <<>>
    /\ i = 0 /\ j = 0 /\ pc = "off"

size_off ==
    size_m = 0 /\ size_k = 0 /\ size_out = <<>> /\ size_pc = "off"

split_off ==
    /\ problem_size = 0 /\ processors = 0 /\ problem_shares = <<>>
    /\ problem_ranges = <<>> /\ split_pc = "off"

\* array_rebalancing.py after lines 4-14
InitRebalance ==
    /\ input \in Inputs
    /\ arrays = input
    /\ M = 0
    /\ K = Len(input)
    /\ V = [x \in 1..Len(input) |-> None]
    /\ i = 0 /\ j = 0 /\ pc = "sum"
    /\ size_off /\ split_off

InitSize ==
    /\ size_m \in 0..MaxTotal
    /\ size_k \in (0 - MaxBuckets)..MaxBuckets
    /\ size_out = <<>>
    /\ size_pc = "call"
    /\ rebalance_off /\ split_off

\* processors_work_share.py after lines 4-5, for the values written there
\* and for others in their place
InitSplit ==
    /\ \/ problem_size = 1024 /\ processors = 28
       \/ /\ problem_size \in 0..MaxTotal
          /\ processors \in (0 - MaxBuckets)..MaxBuckets
    /\ problem_shares = <<>> /\ problem_ranges = <<>>
    /\ split_pc = "shares"
    /\ rebalance_off /\ size_off

Init == InitRebalance \/ InitSize \/ InitSplit

\* ------------------------------------------------ array_rebalancing.py
\* lines 15-17, one iteration
Measure ==
    /\ pc = "sum" /\ i < K
    /\ M' = M + Len(arrays[i + 1])
    /\ V' = [V EXCEPT ![i + 1] = Len(arrays[i + 1])]
    /\ i' = i + 1
    /\ UNCHANGED <<input, arrays, K, j, pc, size_vars, split_vars>>

\* line 15, range(K) exhausted; line 22 starts
MeasureDone ==
    /\ pc = "sum" /\ i = K
    /\ pc' = "outer" /\ i' = 0
    /\ UNCHANGED <<input, arrays, M, K, V, j, size_vars, split_vars>>

\* lines 22-24, one iteration of the outer loop up to its test (K >= 1
\* inside the loops, so get_size returns)
Outer ==
    /\ pc = "outer" /\ i < K
    /\ LET i_required_size == value(get_size(i, K, M))
       IN  IF Len(arrays[i + 1]) > i_required_size
           THEN pc' = "inner" /\ j' = 0 /\ i' = i
           ELSE pc' = "outer" /\ j' = j /\ i' = i + 1
    /\ UNCHANGED <<input, arrays, M, K, V, size_vars, split_vars>>

\* line 22, range(K) exhausted
OuterDone ==
    /\ pc = "outer" /\ i = K
    /\ pc' = "done"
    /\ UNCHANGED <<input, arrays, M, K, V, i, j, size_vars, split_vars>>

\* min that ignores its second argument
min_first(a, b) == a

min(a, b) == IF a <= b THEN a ELSE b

\* a[:n] in place of a[len(a) - n:]
suffix_head(a, n) == SubSeq(a, 1, n)

\* a[len(a) - n:]
suffix(a, n) == SubSeq(a, Len(a) - n + 1, Len(a))

\* a left whole in place of a[:len(a) - n]
prefix_keep(a, n) == a

\* a[:len(a) - n]
prefix(a, n) == SubSeq(a, 1, Len(a) - n)

\* lines 28-32
transferred(arrs, src, dst, src_required, dst_required) ==
    LET overflow == Len(arrs[src]) - src_required
        underflow == dst_required - Len(arrs[dst])
        transfer == min(overflow, underflow)
        appended == [arrs EXCEPT ![dst] = @ \o suffix(arrs[src], transfer)]
    IN  [appended EXCEPT ![src] = prefix(appended[src], transfer)]

\* lines 25-32, one iteration of the inner loop
Inner ==
    /\ pc = "inner" /\ j < K
    /\ LET i_required_size == value(get_size(i, K, M))
           j_required_size == value(get_size(j, K, M))
       IN  IF Len(arrays[j + 1]) < j_required_size
           THEN arrays' = transferred(arrays, i + 1, j + 1,
                                      i_required_size, j_required_size)
           ELSE arrays' = arrays
    /\ j' = j + 1
    /\ UNCHANGED <<input, M, K, V, i, pc, size_vars, split_vars>>

\* line 25, range(K) exhausted; the outer loop moves on
InnerDone ==
    /\ pc = "inner" /\ j = K
    /\ pc' = "outer" /\ i' = i + 1
    /\ UNCHANGED <<input, arrays, M, K, V, j, size_vars, split_vars>>

\* ------------------------------------------------------ get_size, called
\* one call get_size(x, k, m), x the number of sizes returned so far
GetSize ==
    /\ size_pc = "call"
    /\ LET r == get_size(Len(size_out), size_k, size_m)
       IN  IF returns(r)
           THEN /\ size_out' = Append(size_out, value(r))
                /\ size_pc' = IF Len(size_out) + 1 >= Abs(size_k)
                              THEN "returned" ELSE "call"
           ELSE size_pc' = "raised" /\ size_out' = size_out
    /\ UNCHANGED <<size_m, size_k, rebalance_vars, split_vars>>

\* --------------------------------------------- processors_work_share.py
\* range(n) as the set of its members
range(n) == 0..(n - 1)

\* share with the extra item given to one worker too many
share_off(x, size, procs) ==
    (size \div procs) + (IF x \in range((size % procs) + 1) THEN 1 ELSE 0)

\* share with // and % exchanged
share_swapped(x, size, procs) ==
    (size \div procs) + (IF x \in range(size \div procs) THEN 1 ELSE 0)

\* lines 8-10, the share of worker x
share(x, size, procs) ==
    (size \div procs) + (IF x \in range(size % procs) THEN 1 ELSE 0)

\* lines 7-12; the body is evaluated for no x when processors <= 0
Shares ==
    /\ split_pc = "shares"
    /\ problem_shares' =
           [x \in 1..Cardinality(range(processors)) |->
               share(x - 1, problem_size, processors)]
    /\ split_pc' = "ranges"
    /\ UNCHANGED <<problem_size, processors, problem_ranges,
                   rebalance_vars, size_vars>>

\* lines 14-19; a range(a, b) is kept as <<a, b>>
Ranges ==
    /\ split_pc = "ranges"
    /\ problem_ranges' =
           [x \in 1..Cardinality(range(processors)) |->
               <<boundary(problem_size, processors, x - 1),
                 boundary(problem_size, processors, x)>>]
    /\ split_pc' = "done"
    /\ UNCHANGED <<problem_size, processors, problem_shares,
                   rebalance_vars, size_vars>>

Next ==
    \/ Measure \/ MeasureDone \/ Outer \/ OuterDone \/ Inner \/ InnerDone
    \/ GetSize
    \/ Shares \/ Ranges

Spec == Init /\ [][Next]_vars

\* ------------------------------------------------------------ properties
Required(x) == value(get_size(x, K, M))

Lengths(arrs) == [x \in 1..Len(arrs) |-> Len(arrs[x])]

Elements(arrs) == UNION {{arrs[a][p] : p \in 1..Len(arrs[a])} : a \in 1..Len(arrs)}

\* how many times e is held across the arrays
Count(arrs, e) ==
    Cardinality({q \in UNION {{<<a, p>> : p \in 1..Len(arrs[a])} :
                                 a \in 1..Len(arrs)} : arrs[q[1]][q[2]] = e})

Max(a, b) == IF a >= b THEN a ELSE b

SizesReturned == size_pc = "returned" /\ size_k >= 1

SharesComputed == split_pc \in {"ranges", "done"}

SizeOf(x) == value(get_size(x, processors, problem_size))

\* C1: for m >= 0 and k >= 1 the sizes get_size(i, k, m), i in [0, k),
\* sum to m
C1_SizesSumToTotal == SizesReturned => SumSeq(size_out) = size_m

\* C2: for m >= 0 and k >= 1 the largest and the smallest of the sizes
\* get_size(i, k, m), i in [0, k), differ by 0 or 1
C2_SizesDifferByAtMostOne ==
    SizesReturned =>
        \A a, b \in 1..Len(size_out) : size_out[a] - size_out[b] <= 1

C2_Witness ==
    /\ SizesReturned /\ size_k >= 2 /\ Len(size_out) = size_k
    /\ \E a, b \in 1..Len(size_out) : size_out[a] - size_out[b] = 1

\* C3 as stated: every share problem_shares[i] equals the floor-boundary
\* size get_size(i, processors, problem_size)
C3_SharesEqualSizes ==
    SharesComputed /\ processors >= 1 =>
        \A x \in 1..processors : problem_shares[x] = SizeOf(x - 1)

\* C3 amended: every share is within 1 of the floor-boundary size of the
\* same index, and equals it when processors divides problem_size
C3_SharesWithinOneOfSizes ==
    SharesComputed /\ processors >= 1 =>
        \A x \in 1..processors :
            /\ Abs(problem_shares[x] - SizeOf(x - 1)) <= 1
            /\ problem_size % processors = 0 =>
                   problem_shares[x] = SizeOf(x - 1)

C3_Witness ==
    /\ SharesComputed /\ processors >= 2 /\ problem_size < processors
    /\ \E x \in 1..processors : problem_shares[x] = SizeOf(x - 1) + 1

\* C4: when the pass has finished every array i has length
\* get_size(i, K, M), M the total measured before the pass
C4_FinalLengthsRequired ==
    pc = "done" /\ K >= 1 =>
        \A x \in 1..K : Len(arrays[x]) = Required(x - 1)

\* C5: at every point of the run the arrays hold the multiset of elements
\* they held at the start
C5_ElementsConserved ==
    pc # "off" =>
        \A e \in Elements(input) \cup Elements(arrays) :
            Count(arrays, e) = Count(input, e)

C5_Witness ==
    /\ pc \in {"inner", "outer", "done"}
    /\ \E x \in 1..K : Len(arrays[x]) < Len(input[x])
    /\ \E x \in 1..K : Len(arrays[x]) > Len(input[x])

\* C6: no array is ever longer than the larger of its initial length and
\* its required size; elements are appended only to an array strictly
\* below its required size, never past it, and removed only from the tail
\* of an array strictly above its required size, never below it
C6_NoOvershoot ==
    /\ [](pc \in {"outer", "inner", "done"} =>
            \A x \in 1..K : Len(arrays[x]) <= Max(V[x], Required(x - 1)))
    /\ [][\A x \in 1..K :
            LET old == Len(arrays[x])
                new == Len(arrays'[x])
            IN  arrays'[x] # arrays[x] =>
                    \/ /\ new > old
                       /\ SubSeq(arrays'[x], 1, old) = arrays[x]
                       /\ old < Required(x - 1)
                       /\ new <= Required(x - 1)
                    \/ /\ new < old
                       /\ arrays'[x] = SubSeq(arrays[x], 1, new)
                       /\ old > Required(x - 1)
                       /\ new >= Required(x - 1)]_vars

C6_Witness ==
    /\ pc = "inner"
    /\ \E x \in 1..K : Len(arrays[x]) > V[x] /\ Len(arrays[x]) = Required(x - 1)
    /\ \E x \in 1..K : Len(arrays[x]) < V[x] /\ Len(arrays[x]) > Required(x - 1)

\* C7: the ranges tile [0, problem_size): the first starts at 0, the last
\* ends at problem_size, each ends where the next starts, and the starts
\* do not decrease
C7_RangesTile ==
    split_pc = "done" /\ processors >= 1 =>
        /\ problem_ranges[1][1] = 0
        /\ problem_ranges[processors][2] = problem_size
        /\ \A x \in 1..(processors - 1) :
               /\ problem_ranges[x][2] = problem_ranges[x + 1][1]
               /\ problem_ranges[x][1] <= problem_ranges[x + 1][1]

\* C8 as stated: with a bucket or processor count <= 0, get_size raises
\* and returns no size, and the range splitter computes no share list and
\* no range list
C8_NonPositiveCountFails ==
    /\ size_pc \in {"returned", "raised"} /\ size_k <= 0 =>
           size_pc = "raised" /\ size_out = <<>>
    /\ processors <= 0 => split_pc \notin {"ranges", "done"}

\* C8 amended: with a bucket count of exactly 0 get_size raises and
\* returns no size; with a negative bucket count it returns a number; with
\* processors <= 0 the range splitter ends with an empty share list and an
\* empty range list
C8_ZeroCountFails ==
    /\ size_pc \in {"returned", "raised"} /\ size_k = 0 =>
           size_pc = "raised" /\ size_out = <<>>
    /\ size_pc # "off" /\ size_k < 0 => size_pc # "raised"
    /\ size_pc = "returned" /\ size_k < 0 => Len(size_out) = Abs(size_k)
    /\ split_pc = "done" /\ processors <= 0 =>
           problem_shares = <<>> /\ problem_ranges = <<>>

C8_Witness == size_pc = "raised" /\ size_k = 0 /\ size_m > 0

HowMany(seq, v) == Cardinality({x \in 1..Len(seq) : seq[x] = v})

BuiltInSplit == SharesComputed /\ problem_size = 1024 /\ processors = 28

\* C9 as stated: for 1024 items and 28 workers every share is 36 or 37,
\* 8 workers receive 37 and 20 receive 36, and the shares sum to 1024
C9_EightWorkersGet37 ==
    BuiltInSplit =>
        /\ Len(problem_shares) = 28
        /\ HowMany(problem_shares, 37) = 8
        /\ HowMany(problem_shares, 36) = 20
        /\ SumSeq(problem_shares) = 1024

\* C9 amended: for 1024 items and 28 workers every share is 36 or 37,
\* 16 workers (1024 mod 28 = 16) receive 37 and 12 receive 36, and the
\* shares sum to 1024
C9_SixteenWorkersGet37 ==
    BuiltInSplit =>
        /\ Len(problem_shares) = 28
        /\ HowMany(problem_shares, 37) = 16
        /\ HowMany(problem_shares, 36) = 12
        /\ SumSeq(problem_shares) = 1024

C9_Witness == BuiltInSplit /\ split_pc = "done"

ExampleDone == input = Example /\ pc = "done"

\* C10 as stated: the built-in example gives M = 19, K = 5, required sizes
\* [4,4,4,4,3], and ends with arrays of those lengths
C10_ExampleTotal19 ==
    ExampleDone =>
        /\ M = 19 /\ K = 5
        /\ [x \in 1..K |-> Required(x - 1)] = <<4, 4, 4, 4, 3>>
        /\ Lengths(arrays) = <<4, 4, 4, 4, 3>>

\* C10 amended: the built-in example gives M = 21, K = 5, required sizes
\* [4,4,4,4,5], and ends with arrays of those lengths
C10_ExampleTotal21 ==
    ExampleDone =>
        /\ M = 21 /\ K = 5
        /\ [x \in 1..K |-> Required(x - 1)] = <<4, 4, 4, 4, 5>>
        /\ Lengths(arrays) = <<4, 4, 4, 4, 5>>

C10_Witness == ExampleDone /\ arrays # input

====
